---- MODULE Spec2Model ----
(***************************************************************************)
(* A model of nes_chr_decode.py: the decoder of NES CHR tile data (2 bits  *)
(* per pixel, planar) into the scanlines of an indexed-colour image.       *)
(*                                                                         *)
(* Four specifications share the variables below:                          *)
(*   Spec       the whole program: parse_arguments, main, the generators   *)
(*   SpecGen    generate_pixel_rows driven directly on a byte stream of    *)
(*              any length (also lengths parse_arguments would reject)     *)
(*   SpecSlice  decode_character_slice on every pair of bytes              *)
(*   SpecColor  decode_color_code on every string of a small alphabet      *)
(* A Python string is the sequence of its code points (ord of each         *)
(* character); bytes are 0..255; a Python list or bytes object is a        *)
(* sequence (index i of Python is i + 1).                                  *)
(***************************************************************************)
EXTENDS Integers, Sequences, FiniteSets

\* ---------------------------------------------------------------- constants

CHAR_WIDTH == 8
CHAR_HEIGHT == 8
BYTES_PER_CHAR == 16
CHARS_PER_ROW == 16

\* the offset of the high bitplane byte of a slice (chrDataIndex + 8)
HI_PLANE_OFFSET == 8

\* the length decode_color_code demands of a colour code
COLOR_CODE_LEN == 6

\* ord(c) of the ASCII characters the strings of the model are written with
Ord(c) ==
    CASE c = "0" -> 48 [] c = "1" -> 49 [] c = "2" -> 50 [] c = "3" -> 51
      [] c = "4" -> 52 [] c = "5" -> 53 [] c = "6" -> 54 [] c = "7" -> 55
      [] c = "8" -> 56 [] c = "9" -> 57
      [] c = "A" -> 65 [] c = "B" -> 66 [] c = "C" -> 67 [] c = "D" -> 68
      [] c = "E" -> 69 [] c = "F" -> 70 [] c = "X" -> 88
      [] c = "a" -> 97 [] c = "b" -> 98 [] c = "c" -> 99 [] c = "d" -> 100
      [] c = "e" -> 101 [] c = "f" -> 102 [] c = "g" -> 103 [] c = "x" -> 120
      [] c = " " -> 32 [] c = "+" -> 43 [] c = "-" -> 45 [] c = "_" -> 95

\* the Python string whose characters are those of the tuple s
Str(s) == [i \in 1..Len(s) |-> Ord(s[i])]

DEFAULT_PALETTE ==
    << Str(<<"0","0","0","0","0","0">>),
       Str(<<"5","5","5","5","5","5">>),
       Str(<<"a","a","a","a","a","a">>),
       Str(<<"f","f","f","f","f","f">>) >>

\* CHARS_PER_ROW * BYTES_PER_CHAR, the size of one character row in bytes
ChunkSize == CHARS_PER_ROW * BYTES_PER_CHAR

Byte == 0..255

\* ------------------------------------------------------------------- bounds

\* the largest number of whole character rows in an input
MaxStrips == 2

\* the longest all-hex colour string tried besides the full alphabet ones
MaxHexLen == 7

\* --------------------------------------------------- Python integer operators

\* x >> n on Python integers: floor division by 2^n, also for negative x
ShiftRight(x, n) == x \div (2 ^ n)

\* x << n
ShiftLeft(x, n) == x * (2 ^ n)

\* x & y on Python integers (two's complement of unbounded width)
RECURSIVE BitAnd(_, _)
BitAnd(x, y) ==
    IF x = 0 \/ y = 0 THEN 0
    ELSE IF x = -1 THEN y
    ELSE IF y = -1 THEN x
    ELSE ((x % 2) * (y % 2)) + 2 * BitAnd(x \div 2, y \div 2)

\* x | y on Python integers
RECURSIVE BitOr(_, _)
BitOr(x, y) ==
    IF x = 0 THEN y
    ELSE IF y = 0 THEN x
    ELSE IF x = -1 \/ y = -1 THEN -1
    ELSE (IF (x % 2) = 1 \/ (y % 2) = 1 THEN 1 ELSE 0)
         + 2 * BitOr(x \div 2, y \div 2)

\* reversed(list)
Reverse(s) == [i \in 1..Len(s) |-> s[Len(s) + 1 - i]]

Min(a, b) == IF a < b THEN a ELSE b

\* ------------------------------------------------------ decode_character_slice

\* the loop of lines 116-119 after x iterations: the pixels appended so far,
\* least significant bit first
RECURSIVE SliceLoop(_, _, _, _)
SliceLoop(loByte, hiByte, x, pixels) ==
    IF x = CHAR_WIDTH THEN pixels
    ELSE SliceLoop(ShiftRight(loByte, 1), ShiftRight(hiByte, 1), x + 1,
                   Append(pixels,
                          BitOr(BitAnd(loByte, 1),
                                ShiftLeft(BitAnd(hiByte, 1), 1))))

\* a slice decoder that forgets to reverse the pixels
decode_character_slice_unreversed(loByte, hiByte) ==
    SliceLoop(loByte, hiByte, 0, <<>>)

decode_character_slice(loByte, hiByte) ==
    Reverse(SliceLoop(loByte, hiByte, 0, <<>>))

\* ----------------------------------------------------------- decode_color_code

\* the characters the colour strings of SpecColor are made of: two hexadecimal
\* digits, the prefix letter (no digit), a sign, an underscore, a tab and the
\* fullwidth digit one (U+FF11)
Alphabet ==
    {Ord("0"), Ord("f"), Ord("x"), Ord("-"), Ord("_"), 9, 65297}

\* the characters int() skips around the number: those of str.isspace()
\* but for the separators U+001C..U+001F
Whitespace ==
    {9, 10, 11, 12, 13, 32, 133, 160, 5760} \cup (8192..8202)
    \cup {8232, 8233, 8239, 8287, 12288}

\* the code points of the digits zero of Unicode 14 (category Nd); the nine
\* code points after each are its digits one to nine
DecimalZeros ==
    {48, 1632, 1776, 1984, 2406, 2534, 2662, 2790, 2918, 3046, 3174, 3302,
     3430, 3558, 3664, 3792, 3872, 4160, 4240, 6112, 6160, 6470, 6608, 6784,
     6800, 6992, 7088, 7232, 7248, 42528, 43216, 43264, 43472, 43504, 43600,
     44016, 65296, 66720, 68912, 69734, 69872, 69942, 70096, 70384, 70736,
     70864, 71248, 71360, 71472, 71904, 72016, 72784, 73040, 73120, 92768,
     92864, 93008, 120782, 120792, 120802, 120812, 120822, 123200, 123632,
     125264, 130032}

\* the value of a character as a digit of base 16, -1 when it is none: the
\* letters a-f and A-F and every decimal digit of Unicode
DigitValue(c) ==
    IF c \in 97..102 THEN c - 87
    ELSE IF c \in 65..70 THEN c - 55
    ELSE IF c \in 48..57 THEN c - 48
    ELSE IF c < 128 THEN -1
    ELSE IF \E z \in DecimalZeros : c \in z..(z + 9)
    THEN c - (CHOOSE z \in DecimalZeros : c \in z..(z + 9))
    ELSE -1

IsHexDigit(c) == DigitValue(c) >= 0

\* the first index >= i of s that holds no whitespace (Len(s) + 1 at the end)
RECURSIVE SkipSpace(_, _)
SkipSpace(s, i) ==
    IF i <= Len(s) /\ s[i] \in Whitespace THEN SkipSpace(s, i + 1) ELSE i

\* the first index >= i of s that holds neither a digit nor an underscore
RECURSIVE ScanDigits(_, _)
ScanDigits(s, i) ==
    IF i <= Len(s) /\ (IsHexDigit(s[i]) \/ s[i] = Ord("_"))
    THEN ScanDigits(s, i + 1) ELSE i

\* the value of the digits of s[i..j-1], underscores skipped, after acc
RECURSIVE DigitsValue(_, _, _, _)
DigitsValue(s, i, j, acc) ==
    IF i >= j THEN acc
    ELSE IF s[i] = Ord("_") THEN DigitsValue(s, i + 1, j, acc)
    ELSE DigitsValue(s, i + 1, j, acc * 16 + DigitValue(s[i]))

\* int(color, 16) of Python 3: whitespace around, a sign, a 0x prefix, single
\* underscores between digits (and after the prefix) and the decimal digits
\* of every script are all accepted.
\* ok = FALSE stands for ValueError.
IntBase16(s) ==
    LET afterSpace == SkipSpace(s, 1)
        negative == afterSpace <= Len(s) /\ s[afterSpace] = Ord("-")
        signed == afterSpace <= Len(s) /\ s[afterSpace] \in {Ord("+"), Ord("-")}
        afterSign == IF signed THEN afterSpace + 1 ELSE afterSpace
        prefixed == /\ afterSign + 1 <= Len(s)
                    /\ s[afterSign] \in DecimalZeros
                    /\ s[afterSign + 1] \in {Ord("x"), Ord("X")}
        afterPrefix == IF prefixed THEN afterSign + 2 ELSE afterSign
        start == IF prefixed /\ afterPrefix <= Len(s) /\ s[afterPrefix] = Ord("_")
                 THEN afterPrefix + 1 ELSE afterPrefix
        stop == ScanDigits(s, start)
        rest == SkipSpace(s, stop)
        wellFormed ==
            /\ start < stop
            /\ s[start] # Ord("_")
            /\ s[stop - 1] # Ord("_")
            /\ \A k \in start..(stop - 2) :
                  ~(s[k] = Ord("_") /\ s[k + 1] = Ord("_"))
            /\ rest = Len(s) + 1
        magnitude == DigitsValue(s, start, stop, 0)
    IN  IF wellFormed
        THEN [ok |-> TRUE, value |-> IF negative THEN 0 - magnitude ELSE magnitude]
        ELSE [ok |-> FALSE, value |-> 0]

\* lines 43-46: the red, green and blue components of an integer
ColorComponents(color) ==
    << ShiftRight(color, 16),
       BitAnd(ShiftRight(color, 8), 255),
       BitAnd(color, 255) >>

\* decode_color_code: ok = FALSE stands for exit("Error: invalid color code.")
decode_color_code(color) ==
    IF Len(color) # COLOR_CODE_LEN \/ ~IntBase16(color).ok
    THEN [ok |-> FALSE, rgb |-> <<>>]
    ELSE [ok |-> TRUE, rgb |-> ColorComponents(IntBase16(color).value)]

\* -------------------------------------------------------------------- state

VARIABLES
    call,       \* SpecSlice, SpecColor: the function called, its arguments, its result
    argv,       \* the command line: colors (four strings), dir (dirname of the target)
    fs,         \* the files found as the program starts: sourceIsFile,
                \* sourceData, targetExists, dirIsDir; and the calls that
                \* raise OSError: getsizeFails (os.path.getsize, line 82),
                \* mainGetsizeFails (os.path.getsize, line 142),
                \* sourceOpenFails (open, line 156: a source that may not
                \* be read), targetOpenFails (open, line 157: a target
                \* named "", a dangling link, a name too long, a directory
                \* that may not be written)
    target,     \* the output file: "absent", "present" (there before the run,
                \* untouched), "open" (created or truncated by open(.., "wb")), "closed"
    pc,         \* the position of parse_arguments and main
    exitMsg,    \* the message of exit(), "" while there is none
    fsTouched,  \* whether any os.path call or open() was made
    settings,   \* the dictionary parse_arguments returns (its palette)
    locals,     \* main's sourceSize, charRowCount, width, height, palette
    writer,     \* the arguments main gives png.Writer
    stream,     \* the bytes of the opened source
    cursor,     \* the read position of the source
    size,       \* generate_character_rows' size
    rpc,        \* the position of generate_character_rows
    gpc,        \* the position of generate_pixel_rows
    chrData,    \* the character row generate_pixel_rows works on
    pixelY,     \* its pixel row
    pixels,     \* the contents of the one list generate_pixel_rows creates (line 126)
    yielded,    \* the objects yielded so far, in order (the same list each time)
    emitted     \* the contents of each yielded object when it was yielded

mainVars == <<argv, fs, target, pc, exitMsg, fsTouched, settings, locals, writer>>
genVars == <<stream, cursor, size, rpc, gpc, chrData, pixelY, pixels, yielded, emitted>>
vars == <<call, mainVars, genVars>>

NoCall == [fn |-> "none"]
NoLocals == [sourceSize |-> 0, charRowCount |-> 0, width |-> 0, height |-> 0,
             palette |-> <<>>]
NoWriter == [width |-> 0, height |-> 0, bitdepth |-> 0, palette |-> <<>>]
NoArgv == [colors |-> <<>>, dir |-> ""]
NoFs == [sourceIsFile |-> FALSE, sourceData |-> <<>>, getsizeFails |-> FALSE,
         targetExists |-> FALSE, dirIsDir |-> FALSE,
         mainGetsizeFails |-> FALSE, sourceOpenFails |-> FALSE,
         targetOpenFails |-> FALSE]

\* the name of the one list object of generate_pixel_rows
PixelsObject == "pixels"

\* ------------------------------------------------------------------- inputs

\* byte i (from 0) of the input pattern pat
PatternByte(pat, i) ==
    CASE pat = 0 -> 0
      [] pat = 1 -> 255
      [] pat = 2 -> (37 * i + 11 * (i \div 16) + 101 * (i \div 256)) % 256
      [] OTHER -> i % 256

\* n bytes of pattern pat, with byte pokeAt (if it is inside) set to pokeVal
StreamOf(n, pat, pokeAt, pokeVal) ==
    [i \in 1..n |-> IF i - 1 = pokeAt THEN pokeVal ELSE PatternByte(pat, i - 1)]

\* lengths of up to MaxStrips character rows: whole rows, and rows cut short
LengthsWithTails(tails) ==
    {n \in {k * ChunkSize + t : k \in 0..MaxStrips, t \in tails} :
        n <= MaxStrips * ChunkSize}

\* the bytes a stream given to generate_pixel_rows may hold
GenStreams ==
    {StreamOf(n, pat, poke[1], poke[2]) :
        n \in LengthsWithTails({0, 1, 8, 9, 248, 249, 255}),
        pat \in 0..3,
        poke \in {<<-1, 0>>} \cup ({0, 8, 255} \X {128, 1})}

\* the bytes the input file of the program may hold
FileContents ==
    {StreamOf(n, pat, poke[1], poke[2]) :
        n \in LengthsWithTails({0, 1, 255}),
        pat \in {0, 2},
        poke \in {<<-1, 0>>, <<0, 128>>}}

\* what --color(i-1) may be: the default, another colour, and strings that
\* are no colour code: too short, a number with a sign, no number, a number
\* with a prefix, one of fullwidth digits (U+FF11..U+FF16), one after a tab
ColorArgs(i) ==
    {DEFAULT_PALETTE[i]}
    \cup (IF i = 2 THEN {Str(<<"f","f","8","0","0","0">>)} ELSE {})
    \cup (CASE i = 1 -> {Str(<<"1","2","3","4","5">>),
                         Str(<<"-","0","0","0","0","1">>)}
            [] i = 2 -> {Str(<<"g","g","g","g","g","g">>)}
            [] i = 3 -> {Str(<<"0","x","1","2","3","4">>),
                         <<65297, 65298, 65299, 65300, 65301, 65302>>}
            [] OTHER -> {<<9>> \o Str(<<"1","2","3","4","5">>)})

\* all strings over alphabet of length n
RECURSIVE StringsOf(_, _)
StringsOf(alphabet, n) ==
    IF n = 0 THEN {<<>>}
    ELSE {<<c>> \o s : c \in alphabet, s \in StringsOf(alphabet, n - 1)}

\* the strings given to decode_color_code in SpecColor
ColorStrings ==
    StringsOf(Alphabet, COLOR_CODE_LEN)
    \cup StringsOf(Alphabet, COLOR_CODE_LEN - 1)
    \cup UNION {StringsOf({Ord("0"), Ord("a"), Ord("F")}, n) : n \in (MaxHexLen - 1)..MaxHexLen}

\* ---------------------------------------------------------- parse_arguments

\* lines 85-86 with a file of no bytes let through
InputSizeRejectedRemainderOnly(fileSize) ==
    (fileSize % ChunkSize) # 0

\* lines 85-86: divmod(size, CHARS_PER_ROW * BYTES_PER_CHAR) and its test
InputSizeRejected(fileSize) ==
    LET charRowCount == fileSize \div ChunkSize
        remainder == fileSize % ChunkSize
    IN  charRowCount = 0 \/ remainder # 0

\* lines 91-95 without the test of line 91
TargetErrorDirOnly(targetExists, dir, dirIsDir) ==
    IF dir # "" /\ ~dirIsDir
    THEN "Error: the output directory does not exist."
    ELSE ""

\* lines 91-95: the message the target is refused with, "" when it is taken
TargetError(targetExists, dir, dirIsDir) ==
    IF targetExists THEN "Error: the output file already exists."
    ELSE IF dir # "" /\ ~dirIsDir
    THEN "Error: the output directory does not exist."
    ELSE ""

Exit(msg) ==
    /\ pc' = "exit"
    /\ exitMsg' = msg

\* lines 72-75: the four colour codes, in order; the first bad one exits
DecodeColors ==
    /\ pc = "start"
    /\ LET decoded == [i \in 1..4 |-> decode_color_code(argv.colors[i])]
       IN  IF \E i \in 1..4 : ~decoded[i].ok
           THEN Exit("Error: invalid color code.") /\ UNCHANGED settings
           ELSE /\ settings' = [palette |-> [i \in 1..4 |-> decoded[i].rgb]]
                /\ pc' = "checkSource"
                /\ UNCHANGED exitMsg
    /\ UNCHANGED <<call, argv, fs, target, fsTouched, locals, writer, genVars>>

\* lines 78-87: the source is a file, os.path.getsize does not raise OSError
\* and the size is a positive multiple of 256
CheckSource ==
    /\ pc = "checkSource"
    /\ fsTouched' = TRUE
    /\ IF ~fs.sourceIsFile
       THEN Exit("Error: the input file does not exist.")
       ELSE IF fs.getsizeFails
       THEN Exit("Error getting input file size.")
       ELSE IF InputSizeRejected(Len(fs.sourceData))
       THEN Exit("Error: invalid input file size.")
       ELSE pc' = "checkTarget" /\ UNCHANGED exitMsg
    /\ UNCHANGED <<call, argv, fs, target, settings, locals, writer, genVars>>

\* lines 90-101: the target does not exist, its directory does; return
CheckTarget ==
    /\ pc = "checkTarget"
    /\ LET msg == TargetError(target # "absent", argv.dir, fs.dirIsDir)
       IN  IF msg # "" THEN Exit(msg)
           ELSE pc' = "main" /\ UNCHANGED exitMsg
    /\ UNCHANGED <<call, argv, fs, target, fsTouched, settings, locals, writer,
                   genVars>>

\* ---------------------------------------------------------------------- main

\* line 145 with the factor forgotten
ImageHeightInCharRows(charRowCount) == charRowCount

\* line 145
ImageHeight(charRowCount) == charRowCount * CHAR_HEIGHT

\* lines 148-154 with main's own palette given to the writer
WriterArgsLocalPalette(width, height, settingsPalette, localPalette) ==
    [width |-> width, height |-> height, bitdepth |-> 2, palette |-> localPalette]

\* lines 148-154: the arguments of png.Writer
WriterArgs(width, height, settingsPalette, localPalette) ==
    [width |-> width, height |-> height, bitdepth |-> 2,
     palette |-> settingsPalette]

\* lines 148-154: png.Writer raises for a palette with an entry that is no
\* integer of 0..255 (the red of a negative colour code is negative)
PaletteRejected(palette) ==
    \E i \in 1..Len(palette) : \E k \in 1..Len(palette[i]) :
        palette[i][k] \notin 0..255

\* lines 142-154: an OSError of os.path.getsize or the error of png.Writer
\* leaves main as a traceback (pc = "crashed")
MainSetup ==
    /\ pc = "main"
    /\ IF fs.mainGetsizeFails
       THEN /\ pc' = "crashed"
            /\ UNCHANGED <<locals, writer>>
       ELSE LET sourceSize == Len(fs.sourceData)
                charRowCount == sourceSize \div ChunkSize
                width == CHARS_PER_ROW * CHAR_WIDTH
                height == ImageHeight(charRowCount)
                palette == << <<0, 0, 0>>, <<255, 0, 0>>, <<255, 128, 0>>,
                              <<255, 255, 255>> >>
            IN  /\ locals' = [sourceSize |-> sourceSize,
                              charRowCount |-> charRowCount,
                              width |-> width, height |-> height,
                              palette |-> palette]
                /\ writer' = WriterArgs(width, height, settings.palette, palette)
                /\ pc' = IF PaletteRejected(settings.palette)
                         THEN "crashed" ELSE "open"
    /\ UNCHANGED <<call, argv, fs, target, exitMsg, fsTouched, settings, genVars>>

\* lines 156-158: both files are opened, the source first, and the generator
\* is created. An open() that raises leaves main as a traceback: nothing has
\* been read, the source (if it was opened) is closed again by the with
\* statement, no target is created and write() is not called.
OpenFiles ==
    /\ pc = "open"
    /\ IF fs.sourceOpenFails \/ fs.targetOpenFails
       THEN /\ pc' = "crashed"
            /\ UNCHANGED <<target, stream, cursor, rpc, gpc>>
       ELSE /\ stream' = fs.sourceData
            /\ cursor' = 0
            /\ target' = "open"
            /\ rpc' = "seekEnd"
            /\ gpc' = "needChunk"
            /\ pc' = "writing"
    /\ UNCHANGED <<call, argv, fs, exitMsg, fsTouched, settings, locals, writer,
                   size, chrData, pixelY, pixels, yielded, emitted>>

\* line 159 returns, or the exception of the generator leaves main; the with
\* statement closes both files either way
WriteReturn ==
    /\ pc = "writing"
    /\ gpc \in {"done", "error"}
    /\ pc' = IF gpc = "done" THEN "done" ELSE "crashed"
    /\ target' = "closed"
    /\ UNCHANGED <<call, argv, fs, exitMsg, fsTouched, settings, locals, writer,
                   genVars>>

\* ------------------------------------------------------ generate_character_rows

\* line 106: size = source.seek(0, 2)
SeekEnd ==
    /\ gpc = "needChunk"
    /\ rpc = "seekEnd"
    /\ size' = Len(stream)
    /\ cursor' = Len(stream)
    /\ rpc' = "seekStart"
    /\ UNCHANGED <<call, mainVars, stream, gpc, chrData, pixelY, pixels, yielded,
                   emitted>>

\* line 107: source.seek(0)
SeekStart ==
    /\ rpc = "seekStart"
    /\ cursor' = 0
    /\ rpc' = "loop"
    /\ UNCHANGED <<call, mainVars, stream, size, gpc, chrData, pixelY, pixels,
                   yielded, emitted>>

\* a read that rewinds the source once it has reached its end
CursorAfterReadRewinding(pos, n, length) ==
    IF pos + n >= length THEN 0 ELSE pos + n

\* the position source.read(n) leaves a source of the given length at
CursorAfterRead(pos, n, length) == Min(pos + n, length)

\* lines 108-109: the next character row is read (a short one at the end of a
\* source that holds no whole one) and handed to generate_pixel_rows (line 127)
ReadChunk ==
    /\ gpc = "needChunk"
    /\ rpc = "loop"
    /\ cursor < size
    /\ chrData' = SubSeq(stream, cursor + 1, Min(cursor + ChunkSize, Len(stream)))
    /\ cursor' = CursorAfterRead(cursor, ChunkSize, Len(stream))
    /\ pixelY' = 0
    /\ gpc' = "rows"
    /\ UNCHANGED <<call, mainVars, stream, size, rpc, pixels, yielded, emitted>>

\* line 108 is false: generate_character_rows returns, and so does the loop of
\* line 127 and generate_pixel_rows
ReaderReturn ==
    /\ gpc = "needChunk"
    /\ rpc = "loop"
    /\ ~(cursor < size)
    /\ rpc' = "returned"
    /\ gpc' = "done"
    /\ UNCHANGED <<call, mainVars, stream, cursor, size, chrData, pixelY, pixels,
                   yielded, emitted>>

\* ---------------------------------------------------------- generate_pixel_rows

\* line 132 with the width of a character for its size in bytes
SliceIndexByWidth(charX, y) == charX * CHAR_WIDTH + y

\* line 132: chrDataIndex
SliceIndex(charX, y) == charX * BYTES_PER_CHAR + y

\* lines 130-136 from character charX on: the list after the loop, or the
\* list as the IndexError of line 133 or 134 leaves it (ok = FALSE)
RECURSIVE RowLoop(_, _, _, _)
RowLoop(data, y, charX, row) ==
    IF charX = CHARS_PER_ROW THEN [ok |-> TRUE, pixels |-> row]
    ELSE LET chrDataIndex == SliceIndex(charX, y)
         IN  IF chrDataIndex >= Len(data)
                \/ chrDataIndex + HI_PLANE_OFFSET >= Len(data)
             THEN [ok |-> FALSE, pixels |-> row]
             ELSE RowLoop(data, y, charX + 1,
                          row \o decode_character_slice(
                                     data[chrDataIndex + 1],
                                     data[chrDataIndex + HI_PLANE_OFFSET + 1]))

\* lines 128-137 for one pixel row: the list is cleared, filled and yielded,
\* or an IndexError ends the generator
PixelRow ==
    /\ gpc = "rows"
    /\ LET r == RowLoop(chrData, pixelY, 0, <<>>)
       IN  /\ pixels' = r.pixels
           /\ IF r.ok
              THEN /\ yielded' = Append(yielded, PixelsObject)
                   /\ emitted' = Append(emitted, r.pixels)
                   /\ IF pixelY + 1 < CHAR_HEIGHT
                      THEN pixelY' = pixelY + 1 /\ gpc' = "rows"
                      ELSE pixelY' = pixelY /\ gpc' = "needChunk"
              ELSE /\ gpc' = "error"
                   /\ UNCHANGED <<yielded, emitted, pixelY>>
    /\ UNCHANGED <<call, mainVars, stream, cursor, size, rpc, chrData>>

\* what a consumer that kept the i-th yielded object reads from it now
Retained(i) == IF yielded[i] = PixelsObject THEN pixels ELSE <<>>

\* ------------------------------------------------------- the pure functions

\* decode_character_slice is called and returns
ReturnSlice ==
    /\ call.fn = "decode_character_slice"
    /\ call.state = "called"
    /\ call' = [call EXCEPT !.state = "returned",
                            !.result = decode_character_slice(call.loByte,
                                                              call.hiByte)]
    /\ UNCHANGED <<mainVars, genVars>>

\* decode_color_code is called and returns or exits
ReturnColor ==
    /\ call.fn = "decode_color_code"
    /\ call.state = "called"
    /\ LET r == decode_color_code(call.color)
       IN  call' = [call EXCEPT !.state = IF r.ok THEN "returned" ELSE "exited",
                                !.result = r.rgb]
    /\ UNCHANGED <<mainVars, genVars>>

\* ------------------------------------------------------------ specifications

IdleMain ==
    /\ argv = NoArgv
    /\ fs = NoFs
    /\ target = "absent"
    /\ pc = "none"
    /\ exitMsg = ""
    /\ fsTouched = FALSE
    /\ settings = [palette |-> <<>>]
    /\ locals = NoLocals
    /\ writer = NoWriter

IdleGen ==
    /\ stream = <<>>
    /\ cursor = 0
    /\ size = 0
    /\ rpc = "idle"
    /\ gpc = "idle"
    /\ chrData = <<>>
    /\ pixelY = 0
    /\ pixels = <<>>
    /\ yielded = <<>>
    /\ emitted = <<>>

\* the program is started on some command line and some files
Init ==
    /\ call = NoCall
    /\ \E c1 \in ColorArgs(1), c2 \in ColorArgs(2), c3 \in ColorArgs(3),
          c4 \in ColorArgs(4),
          place \in {<<"", FALSE>>, <<"out", TRUE>>, <<"out", FALSE>>},
          isFile \in BOOLEAN, exists \in BOOLEAN :
        /\ exists => (place[1] = "" \/ place[2])
        /\ argv = [colors |-> <<c1, c2, c3, c4>>, dir |-> place[1]]
        /\ \E data \in (IF isFile THEN FileContents ELSE {<<>>}),
              gone \in (IF isFile THEN BOOLEAN ELSE {FALSE}),
              goneLater \in BOOLEAN, unreadable \in BOOLEAN,
              unwritable \in BOOLEAN :
              /\ gone => data = <<>>
              /\ fs = [sourceIsFile |-> isFile, sourceData |-> data,
                       getsizeFails |-> gone, targetExists |-> exists,
                       dirIsDir |-> place[2],
                       mainGetsizeFails |-> goneLater,
                       sourceOpenFails |-> unreadable,
                       targetOpenFails |-> unwritable]
        /\ target = IF exists THEN "present" ELSE "absent"
    /\ pc = "start"
    /\ exitMsg = ""
    /\ fsTouched = FALSE
    /\ settings = [palette |-> <<>>]
    /\ locals = NoLocals
    /\ writer = NoWriter
    /\ IdleGen

GenNext == SeekEnd \/ SeekStart \/ ReadChunk \/ ReaderReturn \/ PixelRow

Next ==
    \/ DecodeColors
    \/ CheckSource
    \/ CheckTarget
    \/ MainSetup
    \/ OpenFiles
    \/ WriteReturn
    \/ GenNext

Spec == Init /\ [][Next]_vars

\* generate_pixel_rows is given an open stream of any length
InitGen ==
    /\ call = NoCall
    /\ IdleMain
    /\ stream \in GenStreams
    /\ cursor = 0
    /\ size = 0
    /\ rpc = "seekEnd"
    /\ gpc = "needChunk"
    /\ chrData = <<>>
    /\ pixelY = 0
    /\ pixels = <<>>
    /\ yielded = <<>>
    /\ emitted = <<>>

SpecGen == InitGen /\ [][GenNext]_vars

InitSlice ==
    /\ \E lo \in Byte, hi \in Byte :
          call = [fn |-> "decode_character_slice", loByte |-> lo, hiByte |-> hi,
                  state |-> "called", result |-> <<>>]
    /\ IdleMain
    /\ IdleGen

SpecSlice == InitSlice /\ [][ReturnSlice]_vars

InitColor ==
    /\ \E color \in ColorStrings :
          call = [fn |-> "decode_color_code", color |-> color,
                  state |-> "called", result |-> <<>>]
    /\ IdleMain
    /\ IdleGen

SpecColor == InitColor /\ [][ReturnColor]_vars

\* ------------------------------------------------------------------- claims

\* bit k of byte b
Bit(b, k) == (b \div (2 ^ k)) % 2

\* the byte at offset off (from 0) of the stream
ByteAt(off) == stream[off + 1]

\* C1: for an input of 256*R bytes, pixel p of the s-th emitted scanline is
\* bit (7 - p mod 8) of the byte at 256*(s div 8) + 16*(p div 8) + (s mod 8)
\* plus twice that bit of the byte 8 further on, and once the generator is
\* done there is such a scanline for every s in [0, 8R).
C1_RasterOrder ==
    (Len(stream) % 256 = 0) =>
        /\ \A s \in 0..(Len(emitted) - 1) :
              /\ Len(emitted[s + 1]) = 128
              /\ \A p \in 0..127 :
                    LET off == 256 * (s \div 8) + 16 * (p \div 8) + (s % 8)
                    IN  emitted[s + 1][p + 1] =
                            Bit(ByteAt(off), 7 - (p % 8))
                            + 2 * Bit(ByteAt(off + 8), 7 - (p % 8))
        /\ gpc = "done" => Len(emitted) = 8 * (Len(stream) \div 256)

\* two character rows were decoded; the first and the last scanline differ
C1_Witness ==
    /\ gpc = "done"
    /\ Len(stream) >= 512
    /\ Len(emitted) >= 16
    /\ emitted[1][1] = 1
    /\ emitted[1] # emitted[16]

\* C2: decode_character_slice returns 8 values in 0..3, the i-th (from 0,
\* leftmost) being bit (7-i) of loByte plus twice bit (7-i) of hiByte; the
\* four uniform pairs give all 0, 1, 2, 3 and (0x80, 0x00) gives 1 then 0s.
C2_SliceBits ==
    (call.fn = "decode_character_slice" /\ call.state = "returned") =>
        /\ Len(call.result) = 8
        /\ \A i \in 0..7 :
              /\ call.result[i + 1] \in 0..3
              /\ call.result[i + 1] =
                    Bit(call.loByte, 7 - i) + 2 * Bit(call.hiByte, 7 - i)
        /\ (call.loByte = 0 /\ call.hiByte = 0)
              => call.result = <<0, 0, 0, 0, 0, 0, 0, 0>>
        /\ (call.loByte = 255 /\ call.hiByte = 0)
              => call.result = <<1, 1, 1, 1, 1, 1, 1, 1>>
        /\ (call.loByte = 0 /\ call.hiByte = 255)
              => call.result = <<2, 2, 2, 2, 2, 2, 2, 2>>
        /\ (call.loByte = 255 /\ call.hiByte = 255)
              => call.result = <<3, 3, 3, 3, 3, 3, 3, 3>>
        /\ (call.loByte = 128 /\ call.hiByte = 0)
              => call.result = <<1, 0, 0, 0, 0, 0, 0, 0>>

\* a slice whose two planes differ in every bit was decoded
C2_Witness ==
    /\ call.fn = "decode_character_slice"
    /\ call.state = "returned"
    /\ call.loByte = 172
    /\ call.hiByte = 83
    /\ call.result = <<1, 2, 1, 2, 1, 1, 2, 2>>

\* what C3 says of every state of the program: no scanline too many, each of
\* 128 entries, no exception once generate_pixel_rows is called (main is
\* left by a traceback only before that), and at the end 8 * (size / 256)
\* scanlines, which is the height given to the writer
C3_CountInvariant ==
    /\ pc = "crashed" => (gpc = "idle" /\ emitted = <<>>)
    /\ pc \in {"writing", "done"} =>
          /\ Len(emitted) <= 8 * (Len(fs.sourceData) \div 256)
          /\ \A s \in 1..Len(emitted) : Len(emitted[s]) = 128
    /\ pc = "done" =>
          /\ Len(emitted) = 8 * (Len(fs.sourceData) \div 256)
          /\ Len(emitted) = writer.height

\* the guard of one of the steps of the decoding holds
C3_SomeStepEnabled ==
    \/ gpc = "needChunk" /\ rpc \in {"seekEnd", "loop"}
    \/ rpc = "seekStart"
    \/ gpc = "rows"
    \/ gpc \in {"done", "error"}

\* a natural number that every step of the decoding makes smaller: the seeks
\* still to do, the character rows still to read, the pixel rows still to
\* emit of the one at hand, and the returns still to make
C3_Variant ==
    (CASE rpc = "seekEnd" -> 2000 [] rpc = "seekStart" -> 1000 [] OTHER -> 0)
    + 30 * ((Len(stream) - (IF rpc \in {"loop", "returned"} THEN cursor ELSE 0))
            \div 256)
    + (IF gpc = "rows" THEN 3 * (8 - pixelY) ELSE 0)
    + (CASE pc = "writing" /\ gpc = "needChunk" -> 2
         [] pc = "writing" /\ gpc \in {"done", "error"} -> 1
         [] OTHER -> 0)

\* C3: for an input whose size is a positive multiple of 256 bytes,
\* generate_pixel_rows ends (some step can always be taken and each step
\* lowers the variant), having emitted exactly 8 * (size / 256) scanlines of 128
\* entries each, as many as the height main gives the raster writer.
C3_ScanlineCount ==
    /\ []C3_CountInvariant
    /\ [](pc = "writing" => C3_SomeStepEnabled)
    /\ [][pc = "writing" => C3_Variant' < C3_Variant]_vars

\* the program has written the 16 scanlines of a 512 byte input
C3_Witness ==
    /\ pc = "done"
    /\ Len(fs.sourceData) = 512
    /\ Len(emitted) = 16
    /\ writer.height = 16

\* C4: the source is opened or read and the target created only after every
\* check has passed: the colour codes, the source being a file whose size
\* can be had and is valid, the target not existing, its directory existing. A run that exits
\* leaves the target as it was and decodes nothing.
C4_ValidationFirst ==
    /\ (target \in {"open", "closed"} \/ gpc # "idle" \/ cursor # 0
        \/ emitted # <<>>) =>
          /\ \A i \in 1..4 : decode_color_code(argv.colors[i]).ok
          /\ fs.sourceIsFile
          /\ ~fs.getsizeFails
          /\ Len(fs.sourceData) > 0
          /\ Len(fs.sourceData) % 256 = 0
          /\ ~fs.targetExists
          /\ argv.dir = "" \/ fs.dirIsDir
    /\ pc = "exit" =>
          /\ exitMsg # ""
          /\ target = (IF fs.targetExists THEN "present" ELSE "absent")
          /\ gpc = "idle"
          /\ emitted = <<>>

\* the last check has failed after the others passed; the file is untouched
C4_Witness ==
    /\ pc = "exit"
    /\ exitMsg = "Error: the output file already exists."
    /\ fs.targetExists
    /\ target = "present"
    /\ Len(fs.sourceData) = 256

\* C5: parse_arguments refuses, with the invalid input size error, the sizes
\* that are zero or no multiple of 256, and takes every positive multiple of
\* 256; an input of 256 bytes gives one character row, 8 scanlines and an
\* image of 128 by 8.
C5_InputSize ==
    LET n == Len(fs.sourceData)
        valid == n > 0 /\ n % 256 = 0
        sizeChecked == /\ pc \notin {"none", "start", "checkSource"}
                       /\ exitMsg \notin {"Error: invalid color code.",
                                          "Error: the input file does not exist.",
                                          "Error getting input file size."}
    IN  /\ exitMsg = "Error: invalid input file size." => ~valid
        /\ sizeChecked =>
              (exitMsg = "Error: invalid input file size." <=> ~valid)
        /\ (pc = "done" /\ n = 256) =>
              /\ locals.charRowCount = 1
              /\ Len(emitted) = 8
              /\ writer.width = 128
              /\ writer.height = 8

\* a file of 255 bytes was refused for its size
C5_Witness ==
    /\ pc = "exit"
    /\ exitMsg = "Error: invalid input file size."
    /\ Len(fs.sourceData) = 255

\* the value of one of the characters 0-9, a-f, A-F, -1 for any other
AsciiHexValue(c) ==
    IF c \in 48..57 THEN c - 48
    ELSE IF c \in 97..102 THEN c - 87
    ELSE IF c \in 65..70 THEN c - 55
    ELSE -1

\* C6: decode_color_code takes no string but those of exactly 6 hexadecimal
\* digits, and refuses the others before any file is looked at.
C6_OnlySixHexDigits ==
    /\ (call.fn = "decode_color_code" /\ call.state = "returned") =>
          /\ Len(call.color) = 6
          /\ \A k \in 1..Len(call.color) : AsciiHexValue(call.color[k]) >= 0
    /\ (call.fn = "decode_color_code" /\ call.state = "exited") => ~fsTouched

\* the number two hexadecimal digits of s, from index k, stand for
HexPair(s, k) == 16 * AsciiHexValue(s[k]) + AsciiHexValue(s[k + 1])

IsSixHexDigits(s) == Len(s) = 6 /\ \A k \in 1..6 : AsciiHexValue(s[k]) >= 0

\* C7: the palette the raster writer is given is the four colours decoded
\* from --color0..--color3, in that order (the grey ramp by default), not
\* the palette main spells out, and it stays what it was.
C7_WriterPalette ==
    /\ pc \in {"open", "writing", "done"} => writer # NoWriter
    /\ writer # NoWriter =>
        /\ Len(writer.palette) = 4
        /\ writer.palette = settings.palette
        /\ \A i \in 1..4 :
              /\ writer.palette[i] = decode_color_code(argv.colors[i]).rgb
              /\ IsSixHexDigits(argv.colors[i]) =>
                    writer.palette[i] = << HexPair(argv.colors[i], 1),
                                           HexPair(argv.colors[i], 3),
                                           HexPair(argv.colors[i], 5) >>
        /\ argv.colors = DEFAULT_PALETTE =>
              writer.palette = << <<0, 0, 0>>, <<85, 85, 85>>,
                                  <<170, 170, 170>>, <<255, 255, 255>> >>

\* the run is over with --color1 ff8000, which is not main's own second colour
C7_Witness ==
    /\ pc = "done"
    /\ argv.colors[2] = Str(<<"f","f","8","0","0","0">>)
    /\ writer.palette[2] = <<255, 128, 0>>
    /\ locals.palette[2] = <<255, 0, 0>>

\* C8 as stated: no step of the reader moves the cursor to a smaller offset.
C8_CursorNeverMovesBack == [][cursor' >= cursor]_vars

\* C8, amended: the cursor moves back only once, when line 107 rewinds it to
\* offset 0 after line 106 sought the end to learn the size; from then on,
\* through all the reads, it never moves to a smaller offset.
C8_CursorMovesBackOnlyToRewind ==
    [][/\ cursor' < cursor => (rpc = "seekStart" /\ cursor' = 0)
       /\ rpc \in {"loop", "returned"} => cursor' >= cursor]_vars

\* two character rows were read after the rewind
C8_Witness ==
    /\ rpc = "loop"
    /\ gpc = "rows"
    /\ size >= 512
    /\ cursor = 512

\* C9: on a stream whose length is no multiple of 256 the scanline sequence
\* does not end normally, and no scanline is emitted from the short chunk:
\* only whole chunks give scanlines.
C9_NoRowFromShortChunk ==
    (Len(stream) % 256 # 0) =>
        /\ gpc # "done"
        /\ Len(emitted) <= 8 * (Len(stream) \div 256)

\* C10: pulling the next scanline leaves the scanlines emitted before as they
\* were: on an input of whole character rows, what a consumer reads later
\* from a scanline it kept is what was there when it was emitted.
C10_EmittedRowsKeepContents ==
    (Len(stream) % 256 = 0) =>
        \A i \in 1..Len(yielded) : Retained(i) = emitted[i]

====
